---- MODULE Spec2Model ----
(***************************************************************************)
(* A model of pyusbtin's threaded driver (usbtin/threaded.py) and of its   *)
(* frame codec (usbtin/protocol.py).                                       *)
(*                                                                         *)
(* Bytes are the integers 0..255, byte strings are sequences of bytes.     *)
(* The reader thread, the callers of transmit_command, the device at the   *)
(* other end of the serial line and the CAN receiver are processes whose   *)
(* steps are the actions below.                                            *)
(* The thread using open_channel (usbtin/ctx.py) is one more process, and  *)
(* the codec is also exercised alone, on inputs drawn from bounded sets.   *)
(***************************************************************************)
EXTENDS Integers, Sequences, FiniteSets, TLC

(***************************************************************************)
(* Bounds of the model.                                                    *)
(***************************************************************************)
MaxCallers == 2
MaxCalls == 2
MaxEmit == 2
MaxPolls == 1
MaxTimeout == 1
MaxRecv == 1
MaxShort == 3
MaxPayload == 5
MaxData == 2
MaxChunks == 3

(***************************************************************************)
(* Bytes.                                                                  *)
(***************************************************************************)
CR == 13
BEL == 7

Ord_t == 116
Ord_T == 84
Ord_r == 114
Ord_R == 82
Ord_z == 122
Ord_Z == 90
Ord_v == 118
Ord_V == 86
Ord_N == 78
Ord_F == 70
Ord_O == 79
Ord_C == 67
Ord_S == 83

\* the characters int() treats specially: x, X, 0, +, -, _
Ord_x == 120
Ord_X == 88
Ord_0 == 48
Ord_plus == 43
Ord_minus == 45
Ord_underscore == 95

\* Python slice s[a:b] of a byte string, with 0-based a and b as in the source;
\* out-of-range indices are clipped, never an error.
Slice(s, a, b) ==
    LET lo == IF a < 0 THEN 0 ELSE a
        hi == IF b > Len(s) THEN Len(s) ELSE b
    IN  IF hi <= lo THEN << >> ELSE SubSeq(s, lo + 1, hi)

(***************************************************************************)
(* int(text, 16) and int(text) of the Python runtime, as decode_hex and    *)
(* SetBaudrate.__bytes__ use them: surrounding whitespace is stripped, a   *)
(* sign and (base 16) a 0x prefix are accepted, and single underscores may *)
(* separate digits.                                                        *)
(***************************************************************************)
IsSpace(b) == b \in {9, 10, 11, 12, 13, 28, 29, 30, 31, 32}

RECURSIVE LStrip(_)
LStrip(s) == IF s # << >> /\ IsSpace(Head(s)) THEN LStrip(Tail(s)) ELSE s

RECURSIVE RStrip(_)
RStrip(s) ==
    IF s # << >> /\ IsSpace(s[Len(s)]) THEN RStrip(SubSeq(s, 1, Len(s) - 1)) ELSE s

DigitVal(b) ==
    IF b \in 48..57 THEN b - 48
    ELSE IF b \in 97..102 THEN b - 87
    ELSE IF b \in 65..70 THEN b - 55
    ELSE 99

IsDigit(b, base) == DigitVal(b) < base

\* digit ('_'? digit)*
ValidDigits(s, base) ==
    /\ s # << >>
    /\ IsDigit(s[1], base)
    /\ IsDigit(s[Len(s)], base)
    /\ \A i \in 1..Len(s) : IsDigit(s[i], base) \/ s[i] = Ord_underscore
    /\ \A i \in 1..(Len(s) - 1) : ~(s[i] = Ord_underscore /\ s[i + 1] = Ord_underscore)

RECURSIVE DigitsValue(_, _, _)
DigitsValue(s, base, acc) ==
    IF s = << >> THEN acc
    ELSE IF Head(s) = Ord_underscore THEN DigitsValue(Tail(s), base, acc)
    ELSE DigitsValue(Tail(s), base, acc * base + DigitVal(Head(s)))

Unsigned(s) == IF s # << >> /\ Head(s) \in {Ord_plus, Ord_minus} THEN Tail(s) ELSE s

HasPrefix(s, base) ==
    base = 16 /\ Len(s) >= 2 /\ s[1] = Ord_0 /\ s[2] \in {Ord_x, Ord_X}

\* the digits of the literal: after the sign, the 0x prefix and the underscore
\* that may follow the prefix
Digits(s, base) ==
    LET u == Unsigned(RStrip(LStrip(s)))
        p == IF HasPrefix(u, base) THEN Slice(u, 2, Len(u)) ELSE u
    IN  IF HasPrefix(u, base) /\ p # << >> /\ Head(p) = Ord_underscore THEN Tail(p) ELSE p

\* whether int(s, base) succeeds (ValueError otherwise; a byte above 127 makes
\* decode('ascii') fail before that)
PyIntOk(s, base) ==
    /\ \A i \in 1..Len(s) : s[i] < 128
    /\ ValidDigits(Digits(s, base), base)

PyInt(s, base) ==
    LET t == RStrip(LStrip(s))
        v == DigitsValue(Digits(s, base), base, 0)
    IN  IF t # << >> /\ Head(t) = Ord_minus THEN 0 - v ELSE v

decode_hex_ok(raw) == PyIntOk(raw, 16)

decode_hex(raw) == PyInt(raw, 16)

(***************************************************************************)
(* Formatting: '{:0Nx}', '{:02X}' and hexlify.                             *)
(***************************************************************************)
LowerDigit(d) == IF d < 10 THEN 48 + d ELSE 87 + d

UpperDigit(d) == IF d < 10 THEN 48 + d ELSE 55 + d

RECURSIVE HexDigits(_)
HexDigits(n) ==
    IF n < 16 THEN << n >> ELSE Append(HexDigits(n \div 16), n % 16)

RECURSIVE ZeroPad(_, _)
ZeroPad(s, width) == IF Len(s) >= width THEN s ELSE ZeroPad(<< 0 >> \o s, width)

\* '{:0<width>x}'.format(n) for n >= 0: at least width digits, more when needed
FormatHex(n, width) ==
    LET d == ZeroPad(HexDigits(n), width)
    IN  [i \in 1..Len(d) |-> LowerDigit(d[i])]

encode_hex(n) ==
    LET d == ZeroPad(HexDigits(n), 2)
    IN  [i \in 1..Len(d) |-> UpperDigit(d[i])]

RECURSIVE hexlify(_)
hexlify(data) ==
    IF data = << >> THEN << >>
    ELSE << LowerDigit(Head(data) \div 16), LowerDigit(Head(data) % 16) >>
            \o hexlify(Tail(data))

(***************************************************************************)
(* usbtin/protocol.py: messages.  A message is a record whose kind is the  *)
(* name of its class; a failed parse is the record ParseFailure (the       *)
(* exception MessageParsingError).                                         *)
(***************************************************************************)
IDENT_LEN == 3
IDENT_LEN_EXT == 8
MAX_IDENT == 2047
MAX_IDENT_EXT == 536870911
MAX_DATA == 8

ParseFailure == [kind |-> "MessageParsingError"]

\* a constructor without range checks
FrameInitOk_mut(ident, data, maxIdent) == TRUE

\* _CANFrameBase.__init__: the range checks of identifier and data
FrameInitOk(ident, data, maxIdent) ==
    /\ 0 <= ident /\ ident <= maxIdent
    /\ 0 <= Len(data) /\ Len(data) <= MAX_DATA

\* a parse that does not compare the length digit with the message's length
parse_from_msg_ok_mut(msg, identLen, maxIdent) ==
    LET msg_offset == 2 + identLen
        identRaw == Slice(msg, 1, msg_offset - 1)
        lenRaw == Slice(msg, msg_offset - 1, msg_offset)
    IN  /\ decode_hex_ok(identRaw)
        /\ decode_hex_ok(lenRaw)
        /\ \A k \in 1..decode_hex(lenRaw) :
              LET i == msg_offset + 2 * (k - 1)
              IN  /\ decode_hex_ok(Slice(msg, i, i + 2))
                  /\ decode_hex(Slice(msg, i, i + 2)) \in 0..255
        /\ FrameInitOk(decode_hex(identRaw),
                       [k \in 1..decode_hex(lenRaw) |-> 0], maxIdent)

\* _CANFrameBase.parse_from_msg: whether it returns a frame (every exception
\* it raises ends as MessageParsingError in USBtinMessage.parse)
parse_from_msg_ok(msg, identLen, maxIdent) ==
    LET msg_offset == 2 + identLen
        identRaw == Slice(msg, 1, msg_offset - 1)
        lenRaw == Slice(msg, msg_offset - 1, msg_offset)
    IN  /\ decode_hex_ok(identRaw)
        /\ decode_hex_ok(lenRaw)
        /\ Len(msg) = msg_offset + decode_hex(lenRaw) * 2 + 1
        /\ \A k \in 1..decode_hex(lenRaw) :
              LET i == msg_offset + 2 * (k - 1)
              IN  /\ decode_hex_ok(Slice(msg, i, i + 2))
                  /\ decode_hex(Slice(msg, i, i + 2)) \in 0..255
        /\ FrameInitOk(decode_hex(identRaw),
                       [k \in 1..decode_hex(lenRaw) |-> 0], maxIdent)

parse_from_msg(msg, identLen) ==
    LET msg_offset == 2 + identLen
        msg_len == decode_hex(Slice(msg, msg_offset - 1, msg_offset))
    IN  [ident |-> decode_hex(Slice(msg, 1, msg_offset - 1)),
         data |-> [k \in 1..msg_len |->
                      decode_hex(Slice(msg, msg_offset + 2 * (k - 1),
                                            msg_offset + 2 * k))]]

\* _CANBaseMessage.parse with FRAME_CLASS CANFrame / CANExtendedFrame
CANMessage_parse(msg, kind, identLen, maxIdent) ==
    IF parse_from_msg_ok(msg, identLen, maxIdent)
    THEN [kind |-> kind, frame |-> parse_from_msg(msg, identLen)]
    ELSE ParseFailure

\* _CANBaseRequest.parse: r = cls() is subscripted instead of msg, which raises
\* TypeError for every input
CANRequest_parse(msg, kind, identLen) == ParseFailure

\* VersionString.parse
VersionString_parse(buf, kind) ==
    IF decode_hex_ok(Slice(buf, 1, 3)) /\ decode_hex_ok(Slice(buf, 3, 5))
    THEN [kind |-> kind,
          major |-> decode_hex(Slice(buf, 1, 3)),
          minor |-> decode_hex(Slice(buf, 3, 5))]
    ELSE ParseFailure

\* SerialNumber.parse: buf[1:].decode('ascii')
SerialNumber_parse(buf) ==
    IF \A i \in 2..Len(buf) : buf[i] < 128
    THEN [kind |-> "SerialNumber", serial_number |-> Slice(buf, 1, Len(buf))]
    ELSE ParseFailure

\* bool(fl & 1 << n)
Bit(fl, n) == (fl \div (2 ^ n)) % 2 = 1

\* ErrorFlags.parse: fl = buf[1] is the byte after the tag itself
ErrorFlags_parse(buf) ==
    IF Len(buf) < 2 THEN ParseFailure
    ELSE LET fl == buf[2]
         IN  [kind |-> "ErrorFlags",
              ERR_EWARN |-> Bit(fl, 5),
              ERR_RXOVR |-> Bit(fl, 4),
              ERR_PASSIVE |-> Bit(fl, 2),
              ERR_BUS |-> Bit(fl, 0)]

\* SingleByte.parse: decode_hex(buf[1:2])
SingleByte_parse(buf) ==
    IF decode_hex_ok(Slice(buf, 1, 2))
    THEN [kind |-> "SingleByte", value |-> decode_hex(Slice(buf, 1, 2))]
    ELSE ParseFailure

\* USBtinMessage.parse
parse(buf) ==
    IF buf = << >> THEN ParseFailure
    ELSE IF buf[1] = Ord_t
        THEN CANMessage_parse(buf, "CANMessage", IDENT_LEN, MAX_IDENT)
    ELSE IF buf[1] = Ord_T
        THEN CANMessage_parse(buf, "CANExtendedMessage", IDENT_LEN_EXT, MAX_IDENT_EXT)
    ELSE IF buf[1] = Ord_r THEN CANRequest_parse(buf, "CANRequest", IDENT_LEN)
    ELSE IF buf[1] = Ord_R
        THEN CANRequest_parse(buf, "CANExtendedRequest", IDENT_LEN_EXT)
    ELSE IF buf = << Ord_z, CR >> \/ buf = << Ord_Z, CR >> THEN [kind |-> "SendOk"]
    ELSE IF buf = << CR >> THEN [kind |-> "Ok"]
    ELSE IF buf = << BEL >> THEN [kind |-> "Error"]
    ELSE IF buf[1] = Ord_v THEN VersionString_parse(buf, "FirmwareVersion")
    ELSE IF buf[1] = Ord_V THEN VersionString_parse(buf, "HardwareVersion")
    ELSE IF buf[1] = Ord_N THEN SerialNumber_parse(buf)
    ELSE IF buf[1] = Ord_F THEN ErrorFlags_parse(buf)
    ELSE IF Len(buf) = 3 THEN SingleByte_parse(buf)
    ELSE ParseFailure

\* the class attributes is_can and is_ok
is_can(msg) ==
    msg.kind \in {"CANMessage", "CANExtendedMessage", "CANRequest", "CANExtendedRequest"}

is_ok(msg) == msg.kind # "Error"

(***************************************************************************)
(* usbtin/protocol.py: commands and their serialization, bytes(cmd).       *)
(***************************************************************************)
OpenCANChannel == [type |-> "OpenCANChannel"]

CloseCANChannel == [type |-> "CloseCANChannel"]

\* SendCANFrame.with_frame(ident, data)
SendCANFrame(ident, data) ==
    [type |-> "SendCANFrame", frame |-> [ident |-> ident, data |-> data]]

\* SendCANExtendedFrame.with_frame(ident, data)
SendCANExtendedFrame(ident, data) ==
    [type |-> "SendCANExtendedFrame", frame |-> [ident |-> ident, data |-> data]]

\* SendCANRequest(ident, data_len)
SendCANRequest(ident, data_len) ==
    [type |-> "SendCANRequest", ident |-> ident, data_len |-> data_len]

\* SendCANExtendedRequest(ident, data_len)
SendCANExtendedRequest(ident, data_len) ==
    [type |-> "SendCANExtendedRequest", ident |-> ident, data_len |-> data_len]

\* SendCANRequest.MAX_IDENT = 0x1FFF and _SendCANRequestBase.MAX_DATA_LEN
MAX_IDENT_REQ == 8191
MAX_DATA_LEN == 8

\* _SendCANRequestBase.__init__: the range checks
RequestInitOk(ident, data_len, maxIdent) ==
    /\ 0 <= ident /\ ident <= maxIdent
    /\ 0 <= data_len /\ data_len <= MAX_DATA_LEN

\* whether the constructor of the command returns (ValueError otherwise)
CommandInitOk(k) ==
    CASE k.type = "SendCANFrame" ->
            FrameInitOk(k.frame.ident, k.frame.data, MAX_IDENT)
      [] k.type = "SendCANExtendedFrame" ->
            FrameInitOk(k.frame.ident, k.frame.data, MAX_IDENT_EXT)
      [] k.type = "SendCANRequest" ->
            RequestInitOk(k.ident, k.data_len, MAX_IDENT_REQ)
      [] k.type = "SendCANExtendedRequest" ->
            RequestInitOk(k.ident, k.data_len, MAX_IDENT_EXT)
      [] OTHER -> TRUE

\* SetBaudrate(baudrate): baudrate is a str (text) or an int (number)
SetBaudrate(isstr, baudrate) ==
    [type |-> "SetBaudrate", isstr |-> isstr, baudrate |-> baudrate]

\* a header template without zero padding, '{:x}{:1x}'
CANFrame_bytes_mut(frame, identLen) ==
    FormatHex(frame.ident, 1) \o FormatHex(Len(frame.data), 1)
        \o hexlify(frame.data)

\* _CANFrameBase.__bytes__ with HEADER_TPL '{:03x}{:1x}' / '{:08x}{:1x}'
CANFrame_bytes(frame, identLen) ==
    FormatHex(frame.ident, identLen) \o FormatHex(Len(frame.data), 1)
        \o hexlify(frame.data)

\* the exception bytes(cmd) raises, "" when it returns
bytes_raises(cmd) ==
    IF cmd.type # "SetBaudrate" THEN ""
    ELSE IF ~cmd.isstr THEN "NotImplementedError"
    ELSE IF cmd.baudrate = << >> \/ Head(cmd.baudrate) # Ord_S THEN "ValueError"
    ELSE IF ~PyIntOk(Tail(cmd.baudrate), 10) THEN "ValueError"
    ELSE IF PyInt(Tail(cmd.baudrate), 10) > 8 THEN "ValueError"
    ELSE ""

RECURSIVE DecDigits(_)
DecDigits(n) ==
    IF n < 10 THEN << 48 + n >> ELSE Append(DecDigits(n \div 10), 48 + (n % 10))

\* '{}'.format(n)
FormatInt(n) ==
    IF n < 0 THEN << Ord_minus >> \o DecDigits(0 - n) ELSE DecDigits(n)

\* bytes(cmd), where it does not raise
bytes(cmd) ==
    CASE cmd.type = "OpenCANChannel" -> << Ord_O, CR >>
      [] cmd.type = "CloseCANChannel" -> << Ord_C, CR >>
      [] cmd.type = "SendCANFrame" ->
            << Ord_t >> \o CANFrame_bytes(cmd.frame, IDENT_LEN) \o << CR >>
      [] cmd.type = "SetBaudrate" ->
            << Ord_S >> \o FormatInt(PyInt(Tail(cmd.baudrate), 10)) \o << CR >>
      [] cmd.type = "SendCANExtendedFrame" ->
            << Ord_T >> \o CANFrame_bytes(cmd.frame, IDENT_LEN_EXT) \o << CR >>
      [] cmd.type = "SendCANRequest" ->
            << Ord_r >> \o FormatHex(cmd.ident, IDENT_LEN)
                \o FormatHex(cmd.data_len, 1) \o << CR >>
      [] cmd.type = "SendCANExtendedRequest" ->
            << Ord_R >> \o FormatHex(cmd.ident, IDENT_LEN_EXT)
                \o FormatHex(cmd.data_len, 1) \o << CR >>

(***************************************************************************)
(* The channel: usbtin/threaded.py, class USBtinThread.                    *)
(***************************************************************************)
VARIABLES
    ser_in,       \* self.ser, device to host: the bytes not read yet
    ser_out,      \* self.ser, host to device: the writes not answered yet
    can_queue,    \* self.can_queue
    ctrl_queue,   \* self.ctrl_queue
    send_lock,    \* self.send_lock: TRUE when held
    stopped,      \* self.stopped
    reader_pc,    \* the reader thread: "idle", "running", "done", "dead"
    buf,          \* run's local buf
    pc,           \* per caller, its place in transmit_command
    cmd,          \* per caller, the argument cmd
    response,     \* per caller, the local response
    outcome,      \* per caller, how its last call ended
    wseq,         \* per caller, the number of the write of its current call
    acquired_nonempty, \* per caller, whether ctrl_queue held a message when
                  \* it took the lock
    ncalls,       \* the calls of transmit_command begun so far
    check_mark,   \* per caller, the messages the reader had handled when the
                  \* call found ctrl_queue empty
    wire_hist,    \* every message the device has sent, in the order sent
    ctrl_taken,   \* every item popped from ctrl_queue, in the order popped
    can_taken,    \* every item popped from can_queue, in the order popped
    polls_after_stop,  \* the reads that timed out since stop()
    rc_pc,        \* the CAN receiver: "idle", "waiting"
    rc_timeout,   \* the receiver's timeout T
    rc_elapsed,   \* the time since the receiver's call began
    rc_mark,      \* the messages the reader had handled when that call began
    rc_started_empty, \* whether can_queue was empty when that call began
    rc_end_mark,  \* the messages the reader had handled when that call ended
    rc_outcome,   \* how the receiver's last call ended
    rc_calls,     \* the receive calls begun so far
    write_hist,   \* every byte string passed to ser.write, in the order written
    handed,       \* every buffer run has passed to USBtinMessage.parse
    ctx_pc,       \* the thread inside open_channel: its place in the scope
    ctx_open,     \* how open_channel's transmit_command(OpenCANChannel()) ended
    ctx_body,     \* how the body of the with statement ended
    cx_pc,        \* the codec alone: the stage the input has reached
    cx_cmd,       \* the constructor call or the bytes given
    cx_wire,      \* the serialized command, or the bytes given
    cx_out        \* what USBtinMessage.parse made of cx_wire

chan_vars == << ser_in, ser_out, can_queue, ctrl_queue, send_lock, stopped >>

reader_vars == << reader_pc, buf, polls_after_stop >>

caller_vars ==
    << pc, cmd, response, outcome, wseq, acquired_nonempty, ncalls, check_mark >>

recv_vars ==
    << rc_pc, rc_timeout, rc_elapsed, rc_mark, rc_started_empty, rc_end_mark,
       rc_outcome, rc_calls >>

hist_vars == << wire_hist, ctrl_taken, can_taken >>

ctx_vars == << ctx_pc, ctx_open, ctx_body >>

codec_vars == << cx_pc, cx_cmd, cx_wire, cx_out >>

vars ==
    << chan_vars, reader_vars, caller_vars, recv_vars, hist_vars, write_hist,
       handed, ctx_vars, codec_vars >>

Callers == 1..MaxCallers

NoMsg == [kind |-> "None"]

NoOutcome == [kind |-> "none"]

NoCommand == [type |-> "none"]

\* a stack instead of a queue
QueuePut_mut(q, m) == << m >> \o q

\* Queue.put and Queue.get of the standard library: a FIFO
QueuePut(q, m) == Append(q, m)

QueueFront(q) == Head(q)

\* a get that empties the queue
QueueRest_all(q) == << >>

\* a get that leaves the item in the queue
QueueRest_mut(q) == q

QueueRest(q) == Tail(q)

\* the commands the callers send
CallerCommands ==
    {OpenCANChannel, SendCANFrame(291, << >>), SetBaudrate(FALSE, 125000)}

(***************************************************************************)
(* The device.  Its messages on the wire, and what it answers.             *)
(***************************************************************************)
WireOk == << CR >>

WireSendOk == << Ord_z, CR >>

WireError == << BEL >>

\* t1230\r : a standard frame, identifier 0x123, no data
WireFrame == << Ord_t, 49, 50, 51, 48, CR >>

\* r1230\r : a standard remote request, identifier 0x123, length 0
WireRequest == << Ord_r, 49, 50, 51, 48, CR >>

\* x\r : no message of the protocol
WireJunk == << Ord_x, CR >>

\* what the device may send unasked: CAN notifications, a late reply to the
\* commands of _reset, line noise
Unsolicited == {WireFrame, WireRequest, WireOk, WireJunk}

\* the replies to a written command
Replies(written) ==
    IF Head(written) = Ord_t THEN {WireSendOk, WireError} ELSE {WireOk, WireError}

RECURSIVE TotalLen(_)
TotalLen(hist) ==
    IF hist = << >> THEN 0 ELSE Len(Head(hist).bytes) + TotalLen(Tail(hist))

\* the messages of wire_hist read to their end when `unread` bytes are unread
NComplete(hist, unread) ==
    Cardinality({k \in 1..Len(hist) :
                    TotalLen(SubSeq(hist, 1, k)) <= TotalLen(hist) - unread})

NEmitted == Cardinality({k \in 1..Len(wire_hist) : wire_hist[k].re = 0})

NWritten == Len(ser_out) + Cardinality({k \in 1..Len(wire_hist) : wire_hist[k].re # 0})

\* USBtinThread.__init__, with no thread started and nothing on the wire
ChannelInit ==
    /\ ser_in = << >>
    /\ ser_out = << >>
    /\ can_queue = << >>
    /\ ctrl_queue = << >>
    /\ send_lock = FALSE
    /\ stopped = FALSE
    /\ reader_pc = "idle"
    /\ buf = << >>
    /\ pc = [c \in Callers |-> "idle"]
    /\ cmd = [c \in Callers |-> OpenCANChannel]
    /\ response = [c \in Callers |-> NoMsg]
    /\ outcome = [c \in Callers |-> NoOutcome]
    /\ wseq = [c \in Callers |-> 0]
    /\ acquired_nonempty = [c \in Callers |-> FALSE]
    /\ check_mark = [c \in Callers |-> 0]
    /\ ncalls = 0
    /\ wire_hist = << >>
    /\ ctrl_taken = << >>
    /\ can_taken = << >>
    /\ polls_after_stop = 0
    /\ rc_pc = "idle"
    /\ rc_timeout = 0
    /\ rc_elapsed = 0
    /\ rc_mark = 0
    /\ rc_started_empty = TRUE
    /\ rc_end_mark = 0
    /\ rc_outcome = NoOutcome
    /\ rc_calls = 0
    /\ write_hist = << >>
    /\ handed = << >>
    /\ ctx_pc = "idle"
    /\ ctx_open = NoOutcome
    /\ ctx_body = "none"

Init ==
    /\ ChannelInit
    /\ cx_pc = "idle"
    /\ cx_cmd = NoCommand
    /\ cx_wire = << >>
    /\ cx_out = NoMsg

(***************************************************************************)
(* The device's steps.                                                     *)
(***************************************************************************)
\* the device answers the oldest unanswered command
DeviceReply ==
    /\ ser_out # << >>
    /\ \E r \in Replies(Head(ser_out).bytes) :
          /\ ser_in' = ser_in \o r
          /\ wire_hist' = Append(wire_hist, [bytes |-> r, re |-> Head(ser_out).seq])
    /\ ser_out' = Tail(ser_out)
    /\ UNCHANGED << can_queue, ctrl_queue, send_lock, stopped >>
    /\ UNCHANGED << reader_vars, caller_vars, recv_vars, ctrl_taken, can_taken >>
    /\ UNCHANGED << write_hist, handed, ctx_vars, codec_vars >>

\* the device sends a message nobody asked for
DeviceEmit ==
    /\ NEmitted < MaxEmit
    /\ \E m \in Unsolicited :
          /\ ser_in' = ser_in \o m
          /\ wire_hist' = Append(wire_hist, [bytes |-> m, re |-> 0])
    /\ UNCHANGED << ser_out, can_queue, ctrl_queue, send_lock, stopped >>
    /\ UNCHANGED << reader_vars, caller_vars, recv_vars, ctrl_taken, can_taken >>
    /\ UNCHANGED << write_hist, handed, ctx_vars, codec_vars >>

\* a t (T) message with the given identifier and n data bytes 0x5a
WireFrameOf(tag, ident, n) ==
    << tag >> \o FormatHex(ident, IF tag = Ord_t THEN IDENT_LEN ELSE IDENT_LEN_EXT)
        \o FormatHex(n, 1) \o [i \in 1..(2 * n) |-> IF i % 2 = 1 THEN 53 ELSE 97]
        \o << CR >>

\* what arrives at ser.read in one piece: single bytes, and t/T messages
\* whose identifier and length are in range, at the limit, and beyond it
StreamChunks ==
    {<< CR >>, << BEL >>, << Ord_t >>, << 49 >>}
        \cup {WireFrameOf(Ord_t, i, n) :
                i \in {MAX_IDENT, MAX_IDENT + 1}, n \in {0, MAX_DATA}}
        \cup {WireFrameOf(Ord_t, 291, MAX_DATA + 1)}
        \cup {WireFrameOf(Ord_T, i, 1) : i \in {MAX_IDENT_EXT, MAX_IDENT_EXT + 1}}

\* the device sends any bytes at all
DeviceSend ==
    /\ Len(wire_hist) < MaxChunks
    /\ \E m \in StreamChunks :
          /\ ser_in' = ser_in \o m
          /\ wire_hist' = Append(wire_hist, [bytes |-> m, re |-> 0])
    /\ UNCHANGED << ser_out, can_queue, ctrl_queue, send_lock, stopped >>
    /\ UNCHANGED << reader_vars, caller_vars, recv_vars, ctrl_taken, can_taken >>
    /\ UNCHANGED << write_hist, handed, ctx_vars, codec_vars >>

(***************************************************************************)
(* USBtinThread.run, the reader thread.                                    *)
(***************************************************************************)
\* start(): run() begins and tests `while not self.stopped`
RunEnter ==
    /\ reader_pc = "idle"
    /\ reader_pc' = IF stopped THEN "done" ELSE "running"
    /\ buf' = << >>
    /\ UNCHANGED << chan_vars, polls_after_stop, caller_vars, recv_vars, hist_vars >>
    /\ UNCHANGED << write_hist, handed, ctx_vars, codec_vars >>

\* BEL taken for an ordinary byte
IsTerminator_mut(c) == c = CR

IsTerminator(c) == c \in {CR, BEL}

\* one queue for everything
Route_mut(msg) == "ctrl"

\* where run puts a parsed message
Route(msg) == IF is_can(msg) THEN "can" ELSE "ctrl"

\* c = self.ser.read(1) returned a byte
ReaderRead ==
    /\ reader_pc = "running"
    /\ ser_in # << >>
    /\ ser_in' = Tail(ser_in)
    /\ LET c == Head(ser_in)
           b == Append(buf, c)
           msg == parse(b)
           item == [msg |-> msg, src |-> NComplete(wire_hist, Len(ser_in) - 1)]
       IN  IF ~IsTerminator(c)
           THEN /\ buf' = b
                /\ UNCHANGED << reader_pc, can_queue, ctrl_queue, handed >>
           ELSE IF msg = ParseFailure
           THEN /\ reader_pc' = "dead"
                /\ buf' = b
                /\ handed' = Append(handed, b)
                /\ UNCHANGED << can_queue, ctrl_queue >>
           ELSE /\ buf' = << >>
                /\ handed' = Append(handed, b)
                /\ reader_pc' = reader_pc
                /\ IF Route(msg) = "can"
                   THEN /\ can_queue' = QueuePut(can_queue, item)
                        /\ ctrl_queue' = ctrl_queue
                   ELSE /\ ctrl_queue' = QueuePut(ctrl_queue, item)
                        /\ can_queue' = can_queue
    /\ UNCHANGED << ser_out, send_lock, stopped, polls_after_stop >>
    /\ UNCHANGED << caller_vars, recv_vars, hist_vars >>
    /\ UNCHANGED << write_hist, ctx_vars, codec_vars >>

\* c = self.ser.read(1) timed out: `continue` resumes the inner `while True`
ReaderTimeout ==
    /\ reader_pc = "running"
    /\ ser_in = << >>
    /\ polls_after_stop' =
          IF stopped /\ polls_after_stop < MaxPolls
          THEN polls_after_stop + 1 ELSE polls_after_stop
    /\ UNCHANGED << chan_vars, reader_pc, buf, caller_vars, recv_vars, hist_vars >>
    /\ UNCHANGED << write_hist, handed, ctx_vars, codec_vars >>

\* USBtinThread.stop (a second stop() changes nothing)
Stop ==
    /\ ~stopped
    /\ stopped' = TRUE
    /\ UNCHANGED << ser_in, ser_out, can_queue, ctrl_queue, send_lock >>
    /\ UNCHANGED << reader_vars, caller_vars, recv_vars, hist_vars >>
    /\ UNCHANGED << write_hist, handed, ctx_vars, codec_vars >>

(***************************************************************************)
(* USBtinThread.transmit_command, one caller's steps.                      *)
(***************************************************************************)
\* a thread calls transmit_command(cmd) and waits for the lock
Invoke(c) ==
    /\ pc[c] = "idle"
    /\ ncalls < MaxCalls
    /\ \E k \in CallerCommands : cmd' = [cmd EXCEPT ![c] = k]
    /\ pc' = [pc EXCEPT ![c] = "lock"]
    /\ response' = [response EXCEPT ![c] = NoMsg]
    /\ outcome' = [outcome EXCEPT ![c] = NoOutcome]
    /\ wseq' = [wseq EXCEPT ![c] = 0]
    /\ acquired_nonempty' = [acquired_nonempty EXCEPT ![c] = FALSE]
    /\ check_mark' = [check_mark EXCEPT ![c] = 0]
    /\ ncalls' = ncalls + 1
    /\ UNCHANGED << chan_vars, reader_vars, recv_vars, hist_vars >>
    /\ UNCHANGED << write_hist, handed, ctx_vars, codec_vars >>

\* a lock that excludes nobody
LockFree_mut == TRUE

\* Lock.acquire succeeds only on a free lock
LockFree == ~send_lock

\* `with self.send_lock:` is entered
Acquire(c) ==
    /\ pc[c] = "lock"
    /\ LockFree
    /\ send_lock' = TRUE
    /\ pc' = [pc EXCEPT ![c] = "check"]
    /\ acquired_nonempty' = [acquired_nonempty EXCEPT ![c] = ctrl_queue # << >>]
    /\ UNCHANGED << ser_in, ser_out, can_queue, ctrl_queue, stopped >>
    /\ UNCHANGED << cmd, response, outcome, wseq, ncalls, check_mark >>
    /\ UNCHANGED << reader_vars, recv_vars, hist_vars >>
    /\ UNCHANGED << write_hist, handed, ctx_vars, codec_vars >>

\* the emptiness check left out
MustRaiseNotEmpty_mut == FALSE

\* `if not self.ctrl_queue.empty(): raise QueueNotEmptyError`
MustRaiseNotEmpty == ctrl_queue # << >>

\* a check that throws the stale reply away before it raises
CheckEmpty_mut(c) ==
    /\ pc[c] = "check"
    /\ IF MustRaiseNotEmpty
       THEN /\ outcome' = [outcome EXCEPT ![c] = [kind |-> "QueueNotEmptyError"]]
            /\ send_lock' = FALSE
            /\ pc' = [pc EXCEPT ![c] = "idle"]
            /\ ctrl_queue' = QueueRest(ctrl_queue)
            /\ check_mark' = check_mark
       ELSE /\ pc' = [pc EXCEPT ![c] = "write"]
            /\ check_mark' = [check_mark EXCEPT ![c] = NComplete(wire_hist, Len(ser_in))]
            /\ UNCHANGED << outcome, send_lock, ctrl_queue >>
    /\ UNCHANGED << ser_in, ser_out, can_queue, stopped >>
    /\ UNCHANGED << cmd, response, wseq, acquired_nonempty, ncalls >>
    /\ UNCHANGED << reader_vars, recv_vars, hist_vars >>
    /\ UNCHANGED << write_hist, handed, ctx_vars, codec_vars >>

CheckEmpty(c) ==
    /\ pc[c] = "check"
    /\ IF MustRaiseNotEmpty
       THEN /\ outcome' = [outcome EXCEPT ![c] = [kind |-> "QueueNotEmptyError"]]
            /\ send_lock' = FALSE
            /\ pc' = [pc EXCEPT ![c] = "idle"]
            /\ check_mark' = check_mark
       ELSE /\ pc' = [pc EXCEPT ![c] = "write"]
            /\ check_mark' = [check_mark EXCEPT ![c] = NComplete(wire_hist, Len(ser_in))]
            /\ UNCHANGED << outcome, send_lock >>
    /\ UNCHANGED << ser_in, ser_out, can_queue, ctrl_queue, stopped >>
    /\ UNCHANGED << cmd, response, wseq, acquired_nonempty, ncalls >>
    /\ UNCHANGED << reader_vars, recv_vars, hist_vars >>
    /\ UNCHANGED << write_hist, handed, ctx_vars, codec_vars >>

\* a lock taken with acquire() and not released when bytes(cmd) raises
Write_mut(c) ==
    /\ pc[c] = "write"
    /\ IF bytes_raises(cmd[c]) # ""
       THEN /\ outcome' = [outcome EXCEPT ![c] = [kind |-> bytes_raises(cmd[c])]]
            /\ send_lock' = send_lock
            /\ pc' = [pc EXCEPT ![c] = "idle"]
            /\ UNCHANGED << ser_out, wseq, write_hist >>
       ELSE /\ ser_out' = Append(ser_out, [bytes |-> bytes(cmd[c]), seq |-> NWritten + 1])
            /\ write_hist' = Append(write_hist, bytes(cmd[c]))
            /\ wseq' = [wseq EXCEPT ![c] = NWritten + 1]
            /\ pc' = [pc EXCEPT ![c] = "get"]
            /\ UNCHANGED << outcome, send_lock >>
    /\ UNCHANGED << ser_in, can_queue, ctrl_queue, stopped >>
    /\ UNCHANGED << cmd, response, acquired_nonempty, ncalls, check_mark >>
    /\ UNCHANGED << reader_vars, recv_vars, hist_vars >>
    /\ UNCHANGED << handed, ctx_vars, codec_vars >>

\* `self.ser.write(bytes(cmd))`; an exception of bytes(cmd) leaves the with block
Write(c) ==
    /\ pc[c] = "write"
    /\ IF bytes_raises(cmd[c]) # ""
       THEN /\ outcome' = [outcome EXCEPT ![c] = [kind |-> bytes_raises(cmd[c])]]
            /\ send_lock' = FALSE
            /\ pc' = [pc EXCEPT ![c] = "idle"]
            /\ UNCHANGED << ser_out, wseq, write_hist >>
       ELSE /\ ser_out' = Append(ser_out, [bytes |-> bytes(cmd[c]), seq |-> NWritten + 1])
            /\ write_hist' = Append(write_hist, bytes(cmd[c]))
            /\ wseq' = [wseq EXCEPT ![c] = NWritten + 1]
            /\ pc' = [pc EXCEPT ![c] = "get"]
            /\ UNCHANGED << outcome, send_lock >>
    /\ UNCHANGED << ser_in, can_queue, ctrl_queue, stopped >>
    /\ UNCHANGED << cmd, response, acquired_nonempty, ncalls, check_mark >>
    /\ UNCHANGED << reader_vars, recv_vars, hist_vars >>
    /\ UNCHANGED << handed, ctx_vars, codec_vars >>

\* every response returned, the error indicator too
Reply_mut(item) == [kind |-> "return", msg |-> item.msg]

\* how transmit_command ends for a popped response
Reply(item) ==
    IF ~is_ok(item.msg)
    THEN [kind |-> "RemoteError", msg |-> item.msg]
    ELSE [kind |-> "return", msg |-> item.msg]

\* a call that ends with the lock still held
Get_mut(c) ==
    /\ pc[c] = "get"
    /\ ctrl_queue # << >>
    /\ response' = [response EXCEPT ![c] = QueueFront(ctrl_queue)]
    /\ ctrl_queue' = QueueRest(ctrl_queue)
    /\ ctrl_taken' = Append(ctrl_taken, QueueFront(ctrl_queue))
    /\ outcome' = [outcome EXCEPT ![c] = Reply(QueueFront(ctrl_queue))]
    /\ send_lock' = send_lock
    /\ pc' = [pc EXCEPT ![c] = "idle"]
    /\ UNCHANGED << ser_in, ser_out, can_queue, stopped >>
    /\ UNCHANGED << cmd, wseq, acquired_nonempty, ncalls, check_mark >>
    /\ UNCHANGED << reader_vars, recv_vars, wire_hist, can_taken >>
    /\ UNCHANGED << write_hist, handed, ctx_vars, codec_vars >>

\* `response = self.ctrl_queue.get()` returns, then the call ends and the
\* with block releases the lock
Get(c) ==
    /\ pc[c] = "get"
    /\ ctrl_queue # << >>
    /\ response' = [response EXCEPT ![c] = QueueFront(ctrl_queue)]
    /\ ctrl_queue' = QueueRest(ctrl_queue)
    /\ ctrl_taken' = Append(ctrl_taken, QueueFront(ctrl_queue))
    /\ outcome' = [outcome EXCEPT ![c] = Reply(QueueFront(ctrl_queue))]
    /\ send_lock' = FALSE
    /\ pc' = [pc EXCEPT ![c] = "idle"]
    /\ UNCHANGED << ser_in, ser_out, can_queue, stopped >>
    /\ UNCHANGED << cmd, wseq, acquired_nonempty, ncalls, check_mark >>
    /\ UNCHANGED << reader_vars, recv_vars, wire_hist, can_taken >>
    /\ UNCHANGED << write_hist, handed, ctx_vars, codec_vars >>

(***************************************************************************)
(* recv_can_message(timeout=T): a blocking pop of can_queue that raises    *)
(* queue.Empty once T has passed with the queue empty.                     *)
(***************************************************************************)
RecvStart ==
    /\ rc_pc = "idle"
    /\ rc_calls < MaxRecv
    /\ \E T \in 0..MaxTimeout : rc_timeout' = T
    /\ rc_pc' = "waiting"
    /\ rc_elapsed' = 0
    /\ rc_mark' = NComplete(wire_hist, Len(ser_in))
    /\ rc_started_empty' = (can_queue = << >>)
    /\ rc_end_mark' = 0
    /\ rc_outcome' = NoOutcome
    /\ rc_calls' = rc_calls + 1
    /\ UNCHANGED << chan_vars, reader_vars, caller_vars, hist_vars >>
    /\ UNCHANGED << write_hist, handed, ctx_vars, codec_vars >>

\* time passes while the receiver waits
Tick ==
    /\ rc_pc = "waiting"
    /\ rc_elapsed < rc_timeout
    /\ rc_elapsed' = rc_elapsed + 1
    /\ UNCHANGED << rc_pc, rc_timeout, rc_mark, rc_started_empty, rc_end_mark,
                    rc_outcome, rc_calls >>
    /\ UNCHANGED << chan_vars, reader_vars, caller_vars, hist_vars >>
    /\ UNCHANGED << write_hist, handed, ctx_vars, codec_vars >>

RecvGet ==
    /\ rc_pc = "waiting"
    /\ can_queue # << >>
    /\ rc_outcome' = [kind |-> "return", item |-> QueueFront(can_queue)]
    /\ can_queue' = QueueRest(can_queue)
    /\ can_taken' = Append(can_taken, QueueFront(can_queue))
    /\ rc_pc' = "idle"
    /\ rc_end_mark' = NComplete(wire_hist, Len(ser_in))
    /\ UNCHANGED << rc_timeout, rc_elapsed, rc_mark, rc_started_empty, rc_calls >>
    /\ UNCHANGED << ser_in, ser_out, ctrl_queue, send_lock, stopped >>
    /\ UNCHANGED << reader_vars, caller_vars, wire_hist, ctrl_taken >>
    /\ UNCHANGED << write_hist, handed, ctx_vars, codec_vars >>

RecvTimeout ==
    /\ rc_pc = "waiting"
    /\ can_queue = << >>
    /\ rc_elapsed >= rc_timeout
    /\ rc_outcome' = [kind |-> "Empty"]
    /\ rc_pc' = "idle"
    /\ rc_end_mark' = NComplete(wire_hist, Len(ser_in))
    /\ UNCHANGED << rc_timeout, rc_elapsed, rc_mark, rc_started_empty, rc_calls >>
    /\ UNCHANGED << chan_vars, reader_vars, caller_vars, hist_vars >>
    /\ UNCHANGED << write_hist, handed, ctx_vars, codec_vars >>

(***************************************************************************)
(* usbtin/ctx.py: open_channel, used by one thread in a with statement.    *)
(***************************************************************************)
\* the thread that uses open_channel(can)
CtxCaller == 1

\* can.transmit_command(k) is called by thread c
Call(c, k) ==
    /\ pc[c] = "idle"
    /\ cmd' = [cmd EXCEPT ![c] = k]
    /\ pc' = [pc EXCEPT ![c] = "lock"]
    /\ response' = [response EXCEPT ![c] = NoMsg]
    /\ outcome' = [outcome EXCEPT ![c] = NoOutcome]
    /\ wseq' = [wseq EXCEPT ![c] = 0]
    /\ acquired_nonempty' = [acquired_nonempty EXCEPT ![c] = FALSE]
    /\ check_mark' = [check_mark EXCEPT ![c] = 0]
    /\ ncalls' = ncalls + 1

\* thread c is back from transmit_command
Returned(c) == pc[c] = "idle" /\ outcome[c] # NoOutcome

\* an open inside the try block
AfterOpen_mut(o) == "body"

\* transmit_command(OpenCANChannel()) stands before `try`: when it raises,
\* the exception leaves open_channel at once
AfterOpen(o) == IF o.kind = "return" THEN "body" ELSE "failed"

\* `with open_channel(can):` is entered
CtxEnter ==
    /\ ctx_pc = "idle"
    /\ Call(CtxCaller, OpenCANChannel)
    /\ ctx_pc' = "open"
    /\ UNCHANGED << ctx_open, ctx_body >>
    /\ UNCHANGED << chan_vars, reader_vars, recv_vars, hist_vars >>
    /\ UNCHANGED << write_hist, handed, codec_vars >>

\* the open has ended: `yield` runs the body, or the exception propagates
CtxOpened ==
    /\ ctx_pc = "open"
    /\ Returned(CtxCaller)
    /\ ctx_open' = outcome[CtxCaller]
    /\ ctx_pc' = AfterOpen(outcome[CtxCaller])
    /\ UNCHANGED << chan_vars, reader_vars, caller_vars, recv_vars, hist_vars >>
    /\ UNCHANGED << write_hist, handed, ctx_body, codec_vars >>

\* the body sends a frame, as cli.send does
CtxBodySend ==
    /\ ctx_pc = "body"
    /\ Call(CtxCaller, SendCANFrame(291, << >>))
    /\ ctx_pc' = "send"
    /\ UNCHANGED << ctx_open, ctx_body >>
    /\ UNCHANGED << chan_vars, reader_vars, recv_vars, hist_vars >>
    /\ UNCHANGED << write_hist, handed, codec_vars >>

\* the body ends, by reaching its end or by an exception (of its
\* transmit_command, or any other, as queue.Empty in cli.detect_baudrate),
\* and `finally` calls transmit_command(CloseCANChannel())
CtxBodyEnd ==
    /\ \/ /\ ctx_pc = "body"
          /\ ctx_body' \in {"normal", "raised"}
       \/ /\ ctx_pc = "send"
          /\ Returned(CtxCaller)
          /\ ctx_body' \in IF outcome[CtxCaller].kind = "return"
                            THEN {"normal", "raised"} ELSE {"raised"}
    /\ Call(CtxCaller, CloseCANChannel)
    /\ ctx_pc' = "close"
    /\ UNCHANGED << chan_vars, reader_vars, recv_vars, hist_vars >>
    /\ UNCHANGED << write_hist, handed, ctx_open, codec_vars >>

\* the close has ended and the with statement is left
CtxExit ==
    /\ ctx_pc = "close"
    /\ Returned(CtxCaller)
    /\ ctx_pc' = "exited"
    /\ UNCHANGED << chan_vars, reader_vars, caller_vars, recv_vars, hist_vars >>
    /\ UNCHANGED << write_hist, handed, ctx_open, ctx_body, codec_vars >>

(***************************************************************************)
(* usbtin/protocol.py alone: a command is constructed and serialized, and  *)
(* a byte string is parsed.  The inputs are drawn from the sets below.     *)
(***************************************************************************)
\* n times the byte b
Repeat(b, n) == [i \in 1..n |-> b]

\* the bytes short inputs are made of
ShortBytes == {CR, BEL, Ord_z, Ord_x, Ord_t, Ord_F, 49}

\* every byte string of at most MaxShort of these bytes, the empty one too
ShortInputs == UNION {[1..n -> ShortBytes] : n \in 0..MaxShort}

\* t123<L><n digits>\r and T00000123<L><n digits>\r, matching or not
FrameInputs ==
    {<< tag >> \o (IF tag = Ord_t THEN << 49, 50, 51 >>
                   ELSE << 48, 48, 48, 48, 48, 49, 50, 51 >>)
        \o << 48 + L >> \o Repeat(97, n) \o << CR >> :
            tag \in {Ord_t, Ord_T}, L \in 0..2, n \in 0..MaxPayload}

\* F<two hex digits>\r for every byte value
FlagInputs == {<< Ord_F >> \o encode_hex(v) \o << CR >> : v \in 0..255}

\* <two hex digits>\r for every byte value, in capitals and in small letters
RegisterInputs ==
    {encode_hex(v) \o << CR >> : v \in 0..255}
        \cup {FormatHex(v, 2) \o << CR >> : v \in 0..255}

StdIdents == {0, 291, MAX_IDENT}

ExtIdents == {0, MAX_IDENT + 1, MAX_IDENT_EXT}

\* r<3 hex digits><L>\r and R<8 hex digits><L>\r
RequestInputs ==
    {<< Ord_r >> \o FormatHex(i, IDENT_LEN) \o FormatHex(L, 1) \o << CR >> :
        i \in StdIdents, L \in 0..MAX_DATA_LEN}
    \cup {<< Ord_R >> \o FormatHex(i, IDENT_LEN_EXT) \o FormatHex(L, 1) \o << CR >> :
        i \in ExtIdents, L \in 0..MAX_DATA_LEN}

\* the data of the frames constructed: short ones, a full one, one too long
DataInputs ==
    UNION {[1..n -> {0, 10, 255}] : n \in 0..MaxData}
        \cup {[i \in 1..MAX_DATA |-> 17 * i], [i \in 1..(MAX_DATA + 1) |-> i]}

\* the constructor calls, in range and out of range
CommandInputs ==
    {SendCANFrame(i, d) : i \in StdIdents \cup {MAX_IDENT + 1}, d \in DataInputs}
    \cup {SendCANExtendedFrame(i, d) :
            i \in ExtIdents \cup {MAX_IDENT_EXT + 1}, d \in DataInputs}
    \cup {SendCANRequest(i, l) :
            i \in StdIdents \cup {MAX_IDENT + 1, 4096, MAX_IDENT_REQ, MAX_IDENT_REQ + 1},
            l \in {0, MAX_DATA_LEN, MAX_DATA_LEN + 1}}
    \cup {SendCANExtendedRequest(i, l) :
            i \in ExtIdents \cup {MAX_IDENT_EXT + 1},
            l \in {0, MAX_DATA_LEN, MAX_DATA_LEN + 1}}

CodecInputs ==
    {[type |-> "bytes", buf |-> b] :
        b \in ShortInputs \cup FrameInputs \cup FlagInputs \cup RegisterInputs
                \cup RequestInputs}
    \cup CommandInputs

\* a byte string to parse, or a constructor about to be called
CodecInit ==
    /\ ChannelInit
    /\ cx_cmd \in CodecInputs
    /\ cx_pc = IF cx_cmd.type = "bytes" THEN "wire" ELSE "call"
    /\ cx_wire = IF cx_cmd.type = "bytes" THEN cx_cmd.buf ELSE << >>
    /\ cx_out = NoMsg

\* the constructor runs its range checks
CodecConstruct ==
    /\ cx_pc = "call"
    /\ IF CommandInitOk(cx_cmd)
       THEN /\ cx_pc' = "built"
            /\ cx_out' = cx_out
       ELSE /\ cx_pc' = "rejected"
            /\ cx_out' = [kind |-> "ValueError"]
    /\ UNCHANGED << cx_cmd, cx_wire >>
    /\ UNCHANGED << chan_vars, reader_vars, caller_vars, recv_vars, hist_vars >>
    /\ UNCHANGED << write_hist, handed, ctx_vars >>

\* bytes(cmd)
CodecSerialize ==
    /\ cx_pc = "built"
    /\ cx_wire' = bytes(cx_cmd)
    /\ cx_pc' = "wire"
    /\ UNCHANGED << cx_cmd, cx_out >>
    /\ UNCHANGED << chan_vars, reader_vars, caller_vars, recv_vars, hist_vars >>
    /\ UNCHANGED << write_hist, handed, ctx_vars >>

\* USBtinMessage.parse(buf)
CodecParse ==
    /\ cx_pc = "wire"
    /\ cx_out' = parse(cx_wire)
    /\ cx_pc' = "parsed"
    /\ UNCHANGED << cx_cmd, cx_wire >>
    /\ UNCHANGED << chan_vars, reader_vars, caller_vars, recv_vars, hist_vars >>
    /\ UNCHANGED << write_hist, handed, ctx_vars >>

(***************************************************************************)
(* The specification.                                                      *)
(***************************************************************************)
\* the steps of the reader thread
Reader == RunEnter \/ ReaderRead \/ ReaderTimeout

\* the channel with its callers, its reader and the device
Next ==
    \/ DeviceReply
    \/ DeviceEmit
    \/ RunEnter
    \/ ReaderRead
    \/ ReaderTimeout
    \/ Stop
    \/ \E c \in Callers : Invoke(c)
    \/ \E c \in Callers : Acquire(c)
    \/ \E c \in Callers : CheckEmpty(c)
    \/ \E c \in Callers : Write(c)
    \/ \E c \in Callers : Get(c)

Spec == Init /\ [][Next]_vars

\* the channel with a CAN receiver, its reader and the device
RecvNext ==
    \/ DeviceEmit
    \/ RunEnter
    \/ ReaderRead
    \/ ReaderTimeout
    \/ RecvStart
    \/ Tick
    \/ RecvGet
    \/ RecvTimeout

RecvSpec == Init /\ [][RecvNext]_vars

\* the scheduler lets every thread that can step do so, and the device
\* answers what it was sent
FairSpec ==
    /\ Spec
    /\ WF_vars(Reader)
    /\ WF_vars(DeviceReply)
    /\ \A c \in Callers : WF_vars(Acquire(c) \/ CheckEmpty(c) \/ Write(c) \/ Get(c))

\* the channel with a device that does nothing but answer each command with
\* one control reply, and nobody calling stop()
ProgressNext ==
    \/ DeviceReply
    \/ RunEnter
    \/ ReaderRead
    \/ ReaderTimeout
    \/ \E c \in Callers : Invoke(c)
    \/ \E c \in Callers : Acquire(c)
    \/ \E c \in Callers : CheckEmpty(c)
    \/ \E c \in Callers : Write(c)
    \/ \E c \in Callers : Get(c)

\* the same under a fair scheduler and with the device answering
ProgressSpec ==
    /\ Init /\ [][ProgressNext]_vars
    /\ WF_vars(Reader)
    /\ WF_vars(DeviceReply)
    /\ \A c \in Callers : WF_vars(Acquire(c) \/ CheckEmpty(c) \/ Write(c) \/ Get(c))

\* the channel used by one thread through open_channel
CtxNext ==
    \/ CtxEnter
    \/ CtxOpened
    \/ CtxBodySend
    \/ CtxBodyEnd
    \/ CtxExit
    \/ DeviceReply
    \/ DeviceEmit
    \/ RunEnter
    \/ ReaderRead
    \/ ReaderTimeout
    \/ \E c \in Callers : Acquire(c)
    \/ \E c \in Callers : CheckEmpty(c)
    \/ \E c \in Callers : Write(c)
    \/ \E c \in Callers : Get(c)

CtxSpec == Init /\ [][CtxNext]_vars

\* the reader alone, fed any bytes
StreamNext ==
    \/ DeviceSend
    \/ RunEnter
    \/ ReaderRead
    \/ ReaderTimeout

StreamSpec == Init /\ [][StreamNext]_vars

\* the codec applied to one input
CodecNext ==
    \/ CodecConstruct
    \/ CodecSerialize
    \/ CodecParse

CodecSpec == CodecInit /\ [][CodecNext]_vars

(***************************************************************************)
(* What the claims speak of.                                               *)
(***************************************************************************)
\* a caller inside the round trip: from the emptiness check to the pop
InRoundTrip(c) == pc[c] \in {"check", "write", "get"}

\* a call that has ended with a reply
Replied(c) == outcome[c].kind \in {"return", "RemoteError"}

\* on the wire, a CAN notification begins with t, T, r or R
IsCanWire(b) == b # << >> /\ b[1] \in {Ord_t, Ord_T, Ord_r, Ord_R}

\* the replies and notifications of the protocol that the model's device sends
WellFormed(b) == b \in {WireOk, WireSendOk, WireError, WireFrame, WireRequest}

\* the messages the reader has read to their terminator
NRead == NComplete(wire_hist, Len(ser_in))

\* the device has sent nothing but replies to commands and CAN notifications
OnlyRepliesAndCan ==
    \A k \in 1..Len(wire_hist) : wire_hist[k].re # 0 \/ IsCanWire(wire_hist[k].bytes)

\* the indices in 1..n of the messages of the wire that are (not) CAN
RECURSIVE WireIndices(_, _)
WireIndices(n, can) ==
    IF n = 0 THEN << >>
    ELSE IF IsCanWire(wire_hist[n].bytes) = can
         THEN Append(WireIndices(n - 1, can), n)
         ELSE WireIndices(n - 1, can)

Srcs(q) == [i \in 1..Len(q) |-> q[i].src]

\* C1: at most one caller is inside the round trip of transmit_command, and
\* it holds the send lock: a caller waiting for the lock does nothing
C1_MutualExclusion ==
    /\ Cardinality({c \in Callers : InRoundTrip(c)}) <= 1
    /\ \A c \in Callers : InRoundTrip(c) => send_lock

\* a second caller waits for the lock while the first awaits its reply
C1_Witness ==
    \E c, d \in Callers : c # d /\ pc[c] = "get" /\ pc[d] = "lock"

\* C2: when the device sends only one reply per written command, in the
\* order written, besides CAN notifications, the response a caller pops is
\* the reply to its own write, and that is what it returns or raises
C2_NoCrossTalk ==
    OnlyRepliesAndCan =>
        \A c \in Callers :
            response[c] # NoMsg =>
                /\ wire_hist[response[c].src].re = wseq[c]
                /\ Replied(c)
                /\ outcome[c].msg = parse(wire_hist[response[c].src].bytes)

\* two callers have ended, one with the error reply to its command, the other
\* with the ok reply to its own
C2_Witness ==
    /\ OnlyRepliesAndCan
    /\ \E c, d \in Callers :
          /\ c # d
          /\ outcome[c].kind = "RemoteError" /\ wseq[c] # 0
          /\ outcome[d].kind = "return" /\ wseq[d] # 0

\* C3: can_queue holds only messages that came as CAN notifications,
\* ctrl_queue only messages that did not, and no caller ever pops a CAN message
C3_Routing ==
    /\ \A i \in 1..Len(can_queue) :
          /\ is_can(can_queue[i].msg)
          /\ IsCanWire(wire_hist[can_queue[i].src].bytes)
    /\ \A i \in 1..Len(ctrl_queue) :
          /\ ~is_can(ctrl_queue[i].msg)
          /\ ~IsCanWire(wire_hist[ctrl_queue[i].src].bytes)
    /\ \A c \in Callers :
          response[c] # NoMsg =>
              /\ ~is_can(response[c].msg)
              /\ ~IsCanWire(wire_hist[response[c].src].bytes)

\* a caller got its reply although a CAN frame came right before it on the wire
C3_Witness ==
    \E c \in Callers :
        /\ Replied(c)
        /\ \E i \in 1..Len(can_queue) : can_queue[i].src + 1 = response[c].src

\* C4: for a stream of well-formed messages, what went through ctrl_queue is
\* the control messages read so far, in wire order, and what went through
\* can_queue is the CAN messages read so far, in wire order
C4_PerQueueOrder ==
    (\A k \in 1..Len(wire_hist) : WellFormed(wire_hist[k].bytes)) =>
        /\ Srcs(ctrl_taken \o ctrl_queue) = WireIndices(NRead, FALSE)
        /\ Srcs(can_taken \o can_queue) = WireIndices(NRead, TRUE)
        /\ \A i \in 1..Len(ctrl_queue) :
              ctrl_queue[i].msg = parse(wire_hist[ctrl_queue[i].src].bytes)
        /\ \A i \in 1..Len(can_queue) :
              can_queue[i].msg = parse(wire_hist[can_queue[i].src].bytes)

\* C5: a caller that found ctrl_queue non-empty when it took the lock writes
\* nothing and ends with QueueNotEmptyError
C5_QueueNotEmpty ==
    \A c \in Callers :
        acquired_nonempty[c] =>
            /\ pc[c] \in {"check", "idle"}
            /\ wseq[c] = 0
            /\ pc[c] = "idle" => outcome[c].kind = "QueueNotEmptyError"

C5_Witness ==
    \E c \in Callers :
        acquired_nonempty[c] /\ outcome[c].kind = "QueueNotEmptyError"

\* C6: a popped Error ends the call with RemoteError carrying it, any other
\* popped message is returned; Error is what the single byte BEL parses to
C6_ReplyMapping ==
    \A c \in Callers :
        response[c] # NoMsg =>
            /\ (response[c].msg.kind = "Error")
                   = (wire_hist[response[c].src].bytes = << BEL >>)
            /\ (response[c].msg.kind = "Error")
                   = ~is_ok(response[c].msg)
            /\ outcome[c] =
                  IF response[c].msg.kind = "Error"
                  THEN [kind |-> "RemoteError", msg |-> response[c].msg]
                  ELSE [kind |-> "return", msg |-> response[c].msg]

C6_Witness ==
    \E c, d \in Callers :
        /\ outcome[c].kind = "RemoteError" /\ outcome[c].msg.kind = "Error"
        /\ outcome[d].kind = "return" /\ outcome[d].msg.kind = "SendOk"

\* C7: once the reader has died of a parse failure, a caller blocked in the
\* pop of ctrl_queue eventually leaves it
C7_ReaderFaultObservable ==
    \A c \in Callers : [](reader_pc = "dead" /\ pc[c] = "get" => <>(pc[c] # "get"))

\* C8: once stop() was called, the reader has left its loop after its next
\* read that times out
C8_CooperativeStop ==
    polls_after_stop >= 1 => reader_pc # "running"

\* whether the reader put the k-th message of the wire on can_queue
CanEnqueued(k) == is_can(parse(wire_hist[k].bytes))

HappyPath ==
    /\ \A k \in 1..Len(wire_hist) :
          wire_hist[k].re # 0 /\ wire_hist[k].bytes \in {WireOk, WireSendOk}
    /\ \A c \in Callers \ {1} : pc[c] = "idle" /\ outcome[c] = NoOutcome

\* C10: on the happy path no call ends with QueueNotEmptyError or
\* RemoteError, a call that has written ends by returning the ok reply to its
\* own write, ctrl_queue is empty between calls and can_queue stays empty
C10_SequentialHappyPath ==
    HappyPath =>
        /\ outcome[1].kind \notin {"QueueNotEmptyError", "RemoteError"}
        /\ pc[1] = "idle" /\ wseq[1] # 0 =>
              /\ outcome[1].kind = "return"
              /\ outcome[1].msg.kind \in {"Ok", "SendOk"}
              /\ wire_hist[response[1].src].re = wseq[1]
        /\ pc[1] \in {"idle", "lock", "check", "write"} => ctrl_queue = << >>
        /\ can_queue = << >>

\* the second of two calls in a row has returned
C10_Witness ==
    /\ HappyPath
    /\ pc[1] = "idle" /\ wseq[1] >= 2 /\ outcome[1].kind = "return"

\* the CloseCANChannel commands written so far
NClose ==
    Cardinality({k \in 1..Len(write_hist) : write_hist[k] = bytes(CloseCANChannel)})

\* what holds of open_channel whatever the close does
ScopeFrame ==
    /\ NClose <= 1
    /\ ctx_pc \notin {"close", "exited"} => NClose = 0
    /\ ctx_body # "none" => ctx_open.kind = "return"
    /\ ctx_open.kind \notin {"none", "return"} =>
          /\ ctx_pc = "failed"
          /\ ctx_body = "none"
          /\ NClose = 0

\* C11 as stated: after a successful open, one CloseCANChannel has been
\* written when the scope is left, however the body ended; after a failed
\* open the body does not run and no close is written
C11_CloseAlwaysWritten ==
    /\ ScopeFrame
    /\ ctx_pc = "exited" => NClose = 1

\* C11: after a successful open, transmit_command(CloseCANChannel()) is
\* called once when the scope is left, however the body ended, and it writes
\* one CloseCANChannel unless it raises QueueNotEmptyError, when it writes
\* none; after a failed open the body does not run and no close is written
C11_ScopedClose ==
    /\ ScopeFrame
    /\ ctx_pc = "exited" =>
          NClose = (IF outcome[CtxCaller].kind = "QueueNotEmptyError" THEN 0 ELSE 1)

\* the body sent a frame and raised, and the close was written
\* and answered
C11_Witness ==
    /\ ctx_pc = "exited"
    /\ ctx_body = "raised"
    /\ NClose = 1
    /\ outcome[CtxCaller].kind = "return"
    /\ Len(write_hist) = 3

\* the leading bytes USBtinMessage.parse dispatches on
Tags == {Ord_t, Ord_T, Ord_r, Ord_R, Ord_v, Ord_V, Ord_N, Ord_F}

\* the replies recognised as a whole
ExactReplies == {<< CR >>, << Ord_z, CR >>, << Ord_Z, CR >>, << BEL >>}

\* no tag, none of the exact replies, not 3 bytes long
UnknownInput(b) ==
    b # << >> /\ b[1] \notin Tags /\ b \notin ExactReplies /\ Len(b) # 3

\* where the length digit of a t/T message stands (counting from 1)
LenDigitAt(b) == IF b[1] = Ord_t THEN 2 + IDENT_LEN ELSE 2 + IDENT_LEN_EXT

\* the hex digits between the length digit and the terminator
PayloadDigits(b) == Len(b) - LenDigitAt(b) - 1

\* a t/T message whose length digit L is not half its payload digits
LengthMismatch(b) ==
    /\ b # << >> /\ b[1] \in {Ord_t, Ord_T}
    /\ Len(b) > LenDigitAt(b)
    /\ IsDigit(b[LenDigitAt(b)], 16)
    /\ 2 * DigitVal(b[LenDigitAt(b)]) # PayloadDigits(b)

\* C12: parse fails for the empty input, for an input with no recognised
\* tag that is none of the exact replies and not 3 bytes long, and for a t/T
\* message whose length digit disagrees with its payload
C12_ParseFailures ==
    cx_pc = "parsed"
        /\ (cx_wire = << >> \/ UnknownInput(cx_wire) \/ LengthMismatch(cx_wire))
        => cx_out = ParseFailure

\* a frame that declares no data and carries one byte was refused
C12_Witness ==
    /\ cx_pc = "parsed"
    /\ LengthMismatch(cx_wire)
    /\ DigitVal(cx_wire[LenDigitAt(cx_wire)]) = 0
    /\ PayloadDigits(cx_wire) = 2
    /\ cx_out = ParseFailure

\* the number a string of hex digits stands for
HexValue(s) == DigitsValue(s, 16, 0)

AllHex(s) == \A i \in 1..Len(s) : IsDigit(s[i], 16)

\* tag + identLen hex digits + one length digit + CR
IsRequestWire(b, tag, identLen) ==
    /\ Len(b) = identLen + 3
    /\ b[1] = tag
    /\ b[Len(b)] = CR
    /\ AllHex(SubSeq(b, 2, identLen + 2))

\* the identifier and the length such a message encodes
WireIdent(b, identLen) == HexValue(SubSeq(b, 2, identLen + 1))

WireLen(b, identLen) == DigitVal(b[identLen + 2])

\* C13: a well-formed r/R notification with identifier in range and length
\* 0..8 parses to a CAN request with that identifier and that data length
C13_RequestParsing ==
    cx_pc = "parsed" =>
        /\ IsRequestWire(cx_wire, Ord_r, IDENT_LEN)
              /\ WireIdent(cx_wire, IDENT_LEN) <= MAX_IDENT
              /\ WireLen(cx_wire, IDENT_LEN) <= 8
              => cx_out = [kind |-> "CANRequest",
                           ident |-> WireIdent(cx_wire, IDENT_LEN),
                           data_length |-> WireLen(cx_wire, IDENT_LEN)]
        /\ IsRequestWire(cx_wire, Ord_R, IDENT_LEN_EXT)
              /\ WireIdent(cx_wire, IDENT_LEN_EXT) <= MAX_IDENT_EXT
              /\ WireLen(cx_wire, IDENT_LEN_EXT) <= 8
              => cx_out = [kind |-> "CANExtendedRequest",
                           ident |-> WireIdent(cx_wire, IDENT_LEN_EXT),
                           data_length |-> WireLen(cx_wire, IDENT_LEN_EXT)]

\* C14: a standard frame with identifier 0..0x7FF and an extended frame with
\* identifier 0..0x1FFFFFFF, of 0..8 data bytes, is accepted, and parsing the
\* bytes of its send command gives a CAN message of the same kind with the
\* same identifier and data
C14_FrameRoundTrip ==
    /\ cx_pc = "rejected" /\ cx_cmd.type = "SendCANFrame" =>
          cx_cmd.frame.ident > 2047 \/ Len(cx_cmd.frame.data) > 8
    /\ cx_pc = "rejected" /\ cx_cmd.type = "SendCANExtendedFrame" =>
          cx_cmd.frame.ident > 536870911 \/ Len(cx_cmd.frame.data) > 8
    /\ cx_pc = "parsed" /\ cx_cmd.type = "SendCANFrame" =>
          cx_out = [kind |-> "CANMessage", frame |-> cx_cmd.frame]
    /\ cx_pc = "parsed" /\ cx_cmd.type = "SendCANExtendedFrame" =>
          cx_out = [kind |-> "CANExtendedMessage", frame |-> cx_cmd.frame]

\* the largest extended frame has made the round trip
C14_Witness ==
    /\ cx_pc = "parsed"
    /\ cx_cmd.type = "SendCANExtendedFrame"
    /\ cx_cmd.frame.ident = 536870911
    /\ Len(cx_cmd.frame.data) = 8
    /\ cx_out.kind = "CANExtendedMessage"
    /\ cx_out.frame.data[8] = 136

\* F + two hex digits + CR
IsFlagsWire(b) ==
    /\ Len(b) = 4
    /\ b[1] = Ord_F
    /\ IsDigit(b[2], 16) /\ IsDigit(b[3], 16)
    /\ b[4] = CR

\* C15: the flags of a parsed F reply are bits 5, 4, 2 and 0 of the byte its
\* two hex digits encode
C15_ErrorFlagsDecoding ==
    cx_pc = "parsed" /\ IsFlagsWire(cx_wire) =>
        LET v == HexValue(SubSeq(cx_wire, 2, 3))
        IN  cx_out = [kind |-> "ErrorFlags",
                      ERR_EWARN |-> Bit(v, 5),
                      ERR_RXOVR |-> Bit(v, 4),
                      ERR_PASSIVE |-> Bit(v, 2),
                      ERR_BUS |-> Bit(v, 0)]

\* C16: an accepted SendCANRequest has an identifier of at most 11 bits and
\* serializes to r + 3 hex digits + length digit + CR, an accepted
\* SendCANExtendedRequest to R + 8 hex digits + length digit + CR
C16_RequestWireFormat ==
    /\ cx_cmd.type = "SendCANRequest" /\ cx_pc \in {"built", "wire", "parsed"} =>
          cx_cmd.ident <= 2047
    /\ cx_cmd.type = "SendCANRequest" /\ cx_pc \in {"wire", "parsed"} =>
          /\ IsRequestWire(cx_wire, Ord_r, 3)
          /\ WireIdent(cx_wire, 3) = cx_cmd.ident
          /\ WireLen(cx_wire, 3) = cx_cmd.data_len
    /\ cx_cmd.type = "SendCANExtendedRequest" /\ cx_pc \in {"wire", "parsed"} =>
          /\ IsRequestWire(cx_wire, Ord_R, 8)
          /\ WireIdent(cx_wire, 8) = cx_cmd.ident
          /\ WireLen(cx_wire, 8) = cx_cmd.data_len

\* two hex digits + CR, the first of them no tag
IsRegisterWire(b) ==
    /\ Len(b) = 3
    /\ b[1] \notin Tags
    /\ IsDigit(b[1], 16) /\ IsDigit(b[2], 16)
    /\ b[3] = CR

\* C17: a 3-byte reply of two hex digits and CR parses to a SingleByte whose
\* value is the byte the two digits encode
C17_RegisterDecoding ==
    cx_pc = "parsed" /\ IsRegisterWire(cx_wire) =>
        cx_out = [kind |-> "SingleByte", value |-> HexValue(SubSeq(cx_wire, 1, 2))]

\* a t/T message, well-formed up to its length digit, whose identifier or
\* length is beyond the limit of its kind
BeyondLimits(b) ==
    \/ /\ Len(b) > 2 + IDENT_LEN /\ b[1] = Ord_t
       /\ AllHex(SubSeq(b, 2, 2 + IDENT_LEN))
       /\ (WireIdent(b, IDENT_LEN) > 2047 \/ WireLen(b, IDENT_LEN) > 8)
    \/ /\ Len(b) > 2 + IDENT_LEN_EXT /\ b[1] = Ord_T
       /\ AllHex(SubSeq(b, 2, 2 + IDENT_LEN_EXT))
       /\ (WireIdent(b, IDENT_LEN_EXT) > 536870911 \/ WireLen(b, IDENT_LEN_EXT) > 8)

\* C18: a standard frame in can_queue has an identifier in 0..0x7FF, an
\* extended one in 0..0x1FFFFFFF, and either at most 8 data bytes; a t/T
\* message beyond these limits is a parse failure, the reader's last buffer,
\* and puts nothing on a queue
C18_FrameInvariant ==
    /\ \A i \in 1..Len(can_queue) :
          LET m == can_queue[i].msg
          IN  /\ m.kind = "CANMessage" =>
                    /\ m.frame.ident \in 0..2047
                    /\ Len(m.frame.data) <= 8
              /\ m.kind = "CANExtendedMessage" =>
                    /\ m.frame.ident \in 0..536870911
                    /\ Len(m.frame.data) <= 8
    /\ \A k \in 1..Len(handed) :
          BeyondLimits(handed[k]) =>
              /\ parse(handed[k]) = ParseFailure
              /\ reader_pc = "dead"
              /\ k = Len(handed)
              /\ Len(can_queue) + Len(ctrl_queue) = Len(handed) - 1

\* a frame at the identifier limit with 8 data bytes is queued, and the
\* frame one beyond the limit that followed it was refused
C18_Witness ==
    /\ Len(can_queue) = 1
    /\ can_queue[1].msg.frame.ident = 2047
    /\ Len(can_queue[1].msg.frame.data) = 8
    /\ Len(handed) = 2
    /\ BeyondLimits(handed[2])
    /\ reader_pc = "dead"

\* the steps of thread c from its call of transmit_command to the raise of
\* QueueNotEmptyError
CallStep(c) ==
    \/ pc[c] = "idle" /\ pc'[c] = "lock"
    \/ pc[c] = "lock" /\ pc'[c] = "check"
    \/ pc[c] = "check" /\ pc'[c] = "idle"

\* C19: a call of transmit_command that raises QueueNotEmptyError has, in
\* none of its steps, written a byte or changed ctrl_queue or can_queue, and
\* the step that raises leaves send_lock free
C19_QueueNotEmptyFrame ==
    [][\A c \in Callers :
          /\ CallStep(c) =>
                /\ ser_out' = ser_out
                /\ write_hist' = write_hist
                /\ ctrl_queue' = ctrl_queue
                /\ can_queue' = can_queue
          /\ pc[c] = "check" /\ pc'[c] = "idle" =>
                /\ outcome'[c].kind = "QueueNotEmptyError"
                /\ wseq'[c] = 0
                /\ ~send_lock'
          /\ outcome'[c].kind = "QueueNotEmptyError" /\ outcome[c].kind = "none" =>
                pc[c] = "check" /\ pc'[c] = "idle"]_vars

\* a call has raised QueueNotEmptyError: the stale reply is still queued, a
\* CAN frame too, the lock is free and nothing was ever written
C19_Witness ==
    /\ \E c \in Callers : outcome[c].kind = "QueueNotEmptyError" /\ pc[c] = "idle"
    /\ ctrl_queue # << >>
    /\ can_queue # << >>
    /\ ~send_lock
    /\ write_hist = << >>

\* the terminators of the protocol
Terminators == {13, 7}

RECURSIVE Flatten(_)
Flatten(ss) == IF ss = << >> THEN << >> ELSE Head(ss) \o Flatten(Tail(ss))

\* the bytes the device has sent, and those of them the reader has read
BytesSent == Flatten([k \in 1..Len(wire_hist) |-> wire_hist[k].bytes])

BytesRead == SubSeq(BytesSent, 1, Len(BytesSent) - Len(ser_in))

\* the buffer the reader is accumulating (none once the thread has died)
Partial == IF reader_pc = "dead" THEN << >> ELSE buf

Delimited ==
    /\ \A k \in 1..Len(handed) :
          LET b == handed[k]
          IN  /\ b # << >>
              /\ b[Len(b)] \in Terminators
              /\ \A i \in 1..(Len(b) - 1) : b[i] \notin Terminators
    /\ \A i \in 1..Len(Partial) : Partial[i] \notin Terminators
    /\ Flatten(handed) \o Partial = BytesRead

\* C20: every buffer handed to the codec ends with CR or BEL and holds no
\* earlier terminator, the partial buffer holds none, the buffers handed
\* followed by the partial buffer are the bytes read so far, and a read that
\* times out changes neither
C20_MessageDelimiting ==
    /\ []Delimited
    /\ [][reader_pc = "running" /\ ser_in = << >> =>
              buf' = buf /\ handed' = handed]_vars

\* BEL alone and then CR alone were handed to the codec, and the reader has
\* a partial buffer while the device is silent
C20_Witness ==
    /\ handed = << << BEL >>, << CR >> >>
    /\ buf # << >>
    /\ ser_in = << >>
    /\ reader_pc = "running"

\* C21: the message a call returns or raises in RemoteError was handled by
\* the reader after that call, holding the lock, had found ctrl_queue empty;
\* no message handled before that check is returned by the call
C21_FreshReplies ==
    \A c \in Callers :
        response[c] # NoMsg =>
            /\ Replied(c)
            /\ outcome[c].msg = response[c].msg
            /\ response[c].src > check_mark[c]
            /\ \A i \in 1..Len(ctrl_taken) :
                  ctrl_taken[i].src <= check_mark[c] => ctrl_taken[i] # response[c]

\* a call got its reply although the reader had handled two messages, one of
\* them a control message popped earlier, before the call's check
C21_Witness ==
    \E c \in Callers :
        /\ Replied(c)
        /\ check_mark[c] >= 2
        /\ Len(ctrl_taken) = 2
        /\ ctrl_taken[1].src <= check_mark[c]
        /\ response[c] = ctrl_taken[2]

\* a caller inside transmit_command: from its call to its return or raise
InCall(c) == pc[c] # "idle"

\* how a call can have ended
Endings ==
    {"return", "RemoteError", "QueueNotEmptyError", "NotImplementedError",
     "ValueError"}

\* C22: a call that has ended, by a return, a RemoteError, a
\* QueueNotEmptyError or an exception of bytes(cmd), does not hold send_lock:
\* the lock is held only while some caller is between check and pop, and it
\* is free whenever no caller is inside transmit_command
C22_LockReleased ==
    /\ send_lock => \E c \in Callers : InRoundTrip(c)
    /\ (\A c \in Callers : ~InCall(c)) => ~send_lock
    /\ \A c \in Callers : ~InCall(c) => outcome[c].kind \in Endings \cup {"none"}

\* one call ended because bytes(cmd) raised, the other by QueueNotEmptyError,
\* and the lock is free
C22_Witness ==
    /\ \E c, d \in Callers :
          /\ c # d
          /\ ~InCall(c) /\ outcome[c].kind = "NotImplementedError"
          /\ ~InCall(d) /\ outcome[d].kind = "QueueNotEmptyError"
    /\ ~send_lock

\* the reader thread runs, or is about to: it has neither died of a parse
\* failure nor ended
ReaderAlive == reader_pc \in {"idle", "running"}

\* C23: while the reader stays alive, under fair scheduling and with a
\* device that answers every command, every call of transmit_command ends
\* and every caller waiting for send_lock gets it; a call leaves the pop
\* only by popping a message, and until then it keeps the lock and every
\* other caller stays outside the round trip
C23_TransactionProgress ==
    /\ \A c \in Callers :
          /\ (pc[c] # "idle") ~> (pc[c] = "idle" \/ ~ReaderAlive)
          /\ (pc[c] = "lock") ~> (pc[c] = "check" \/ ~ReaderAlive)
    /\ [](\A c \in Callers :
            pc[c] = "get" =>
                /\ send_lock
                /\ \A d \in Callers \ {c} : ~InRoundTrip(d))
    /\ [][\A c \in Callers :
              pc[c] = "get" /\ pc'[c] # "get" =>
                  ctrl_queue # << >> /\ ctrl_taken' = Append(ctrl_taken, Head(ctrl_queue))]_vars

\* the caller that waited for the lock while the other awaited its reply
\* has got the lock, written and returned in its turn
C23_Witness ==
    /\ ReaderAlive
    /\ \E c, d \in Callers :
          /\ c # d
          /\ pc[c] = "idle" /\ outcome[c].kind = "return" /\ wseq[c] = 1
          /\ pc[d] = "idle" /\ outcome[d].kind = "return" /\ wseq[d] = 2
          /\ wire_hist[response[d].src].re = 2

\* q2 is q with one item put at its end
Extends(q2, q) == Len(q2) = Len(q) + 1 /\ SubSeq(q2, 1, Len(q)) = q

\* the step in which the reader thread has read a byte
ReadStep == ser_in # << >> /\ ser_in' = Tail(ser_in)

\* the step in which caller c leaves transmit_command's pop
PopStep(c) == pc[c] = "get" /\ pc'[c] = "idle"

\* what every step does to the queues
QueueStep ==
    /\ ReadStep =>
          /\ pc' = pc
          /\ \/ ctrl_queue' = ctrl_queue /\ can_queue' = can_queue
             \/ Extends(ctrl_queue', ctrl_queue) /\ can_queue' = can_queue
             \/ Extends(can_queue', can_queue) /\ ctrl_queue' = ctrl_queue
    /\ ~ReadStep =>
          /\ can_queue' = can_queue
          /\ \/ ctrl_queue' = ctrl_queue
             \/ /\ ctrl_queue # << >>
                /\ ctrl_queue' = Tail(ctrl_queue)
                /\ \E c \in Callers : PopStep(c)
    /\ \A c \in Callers :
          PopStep(c) => Len(ctrl_taken') = Len(ctrl_taken) + 1

\* C24: a queue grows only in a step of the reader, by one item at its end,
\* and the reader removes nothing; ctrl_queue shrinks only in the step that
\* ends a call's pop, by its first item, once per call; no step of a caller
\* changes can_queue
C24_SingleProducer ==
    /\ [][QueueStep]_vars
    /\ [](Len(ctrl_taken) + Cardinality({c \in Callers : InCall(c)}) <= ncalls)

\* the reader has filled both queues, a caller has popped its reply, and a
\* second control message is still queued
C24_Witness ==
    /\ \E c \in Callers : Replied(c) /\ pc[c] = "idle"
    /\ Len(ctrl_taken) = 1
    /\ ctrl_queue # << >>
    /\ can_queue # << >>

====
